---------------------------- MODULE Spec2Model ----------------------------
(***************************************************************************)
(* A model of the metabolate / npanalyst pipeline:                         *)
(*   - the command line (src/metabolate/cli.py) running the replicate and  *)
(*     basketing phases,                                                   *)
(*   - process_replicates / replicate_compare_sample / basket_replicated   *)
(*     (src/npanalyst/core.py), with joblib's Parallel call as a pool of   *)
(*     at most n_jobs workers,                                             *)
(*   - score_baskets, cluster_score, create_output_table and               *)
(*     create_association_network (src/npanalyst/activity.py).             *)
(* Real-valued scores are held in fixed point, in thousandths.             *)
(***************************************************************************)
EXTENDS Integers, Sequences, FiniteSets, TLC

(***************************************************************************)
(* Bounds of the model.                                                    *)
(***************************************************************************)
NumSamples == 3

MaxWorkers == 2

Samples == 1..NumSamples

(***************************************************************************)
(* The command line's task choices (cli.py line 9) and the two tests main  *)
(* makes on them (lines 18 and 21).                                        *)
(***************************************************************************)
Tasks == {"replicate", "basket", "both", "activity", "full_pipeline"}

ReplicateTasks == {"replicate", "both", "full_pipeline"}

BasketTasks == {"basket", "both", "full_pipeline"}

(***************************************************************************)
(* The steps of replicate_compare_sample at which a sample's pass can      *)
(* raise: loading the replicate files (an unreadable input), the connected *)
(* components, the collapse, and writing the output table.                 *)
(***************************************************************************)
FailSteps == {"none", "load", "concomp", "collapse", "write"}

Absent == 0

VARIABLES
    task,       \* args.task
    n_jobs,     \* max_workers handed to Parallel
    failAt,     \* per sample: the step of its pass that raises, or "none"
    mainpc,     \* position of main: start, replicate, basket, done, crashed
    wpc,        \* per sample: position of its replicate_compare_sample call
    rtree,      \* per sample: the spatial index of its pass: none, live, released
    files,      \* the replicated directory: file name -> the sample whose table it holds
    bpc,        \* position of basket_replicated
    brtree,     \* the spatial index of the basketing pass
    repdf       \* what make_repdf read: the replicated directory at that moment

pvars == <<task, n_jobs, failAt, mainpc, wpc, rtree, files, bpc, brtree, repdf>>

VARIABLES
    baskets,    \* the list of baskets: each basket's set of samples
    actTable,   \* activity_df: the fingerprint row of each sample it holds
    score_jobs, \* max_workers handed to score_baskets' Parallel
    spc,        \* per basket: position of its score_basket call
    results,    \* per basket: what its score_basket call returned
    apc,        \* position of the activity phase
    scores,     \* the list score_baskets returned
    table,      \* the rows create_output_table built
    G           \* the graph create_association_network built

avars == <<baskets, actTable, score_jobs, spc, results, apc, scores, table, G>>

VARIABLES
    cs_fpd,     \* cluster_score's argument fpd
    cs_samples, \* cluster_score's argument samples
    cs_result   \* what the call produced

cvars == <<cs_fpd, cs_samples, cs_result>>

VARIABLES
    site,       \* the call site of the pass: replicate_compare_sample or basket_replicated
    ERRORINFO,  \* configd["ERRORINFO"]: per matched column its (kind, magnitude)
    min_reps,   \* the threshold handed to collapse_connected_components
    df,         \* the feature table of the pass
    kpc,        \* position of the pass: start, boxed, indexed, collapsed
    boxes,      \* per feature its tolerance box (the error columns of df)
    index,      \* the spatial index: the (id, box) entries inserted
    seen,       \* features already placed in a component
    next_i,     \* the feature the component traversal looks at next
    con_comps,  \* the components found so far, in discovery order
    ndf,        \* the consolidated records, one per retained component
    dropped     \* the components the min_reps filter dropped

kvars == <<site, ERRORINFO, min_reps, df, kpc, boxes, index, seen, next_i,
           con_comps, ndf, dropped>>

vars == <<pvars, avars, cvars, kvars>>

(***************************************************************************)
(* The output file of a sample: f"{sample}_replicated.csv".                *)
(***************************************************************************)
FileName(s) == <<s, "_replicated.csv">>

AllFiles == {FileName(s) : s \in Samples}

Running == {"running", "indexed", "components", "collapsed"}

Ended == {"done", "failed", "killed"}

(***************************************************************************)
(* Python drops the local rtree when a call returns without gc.collect():  *)
(* the index is freed when nothing else refers to it and is left behind    *)
(* when it sits in a reference cycle (the leak line 96 works around).      *)
(***************************************************************************)
ScopeExit(ix) == IF ix = "live" THEN {"live", "released"} ELSE {ix}

PInit ==
    /\ task \in Tasks
    /\ n_jobs \in 1..MaxWorkers
    /\ failAt \in [Samples -> FailSteps]
    /\ mainpc = "start"
    /\ wpc = [s \in Samples |-> "pending"]
    /\ rtree = [s \in Samples |-> "none"]
    /\ files = [f \in AllFiles |-> Absent]
    /\ bpc = "idle"
    /\ brtree = "none"
    /\ repdf = [f \in AllFiles |-> Absent]

(***************************************************************************)
(* main, cli.py lines 17-26: the replicate phase when the task has one,    *)
(* then the basketing phase when the task has one.                         *)
(***************************************************************************)
AfterReplicate == IF task \in BasketTasks THEN "basket" ELSE "done"

MainStart ==
    /\ mainpc = "start"
    /\ mainpc' = IF task \in ReplicateTasks THEN "replicate" ELSE AfterReplicate
    /\ UNCHANGED <<task, n_jobs, failAt, wpc, rtree, files, bpc, brtree, repdf, avars, cvars, kvars>>

(***************************************************************************)
(* process_replicates: Parallel(n_jobs)(delayed(replicate_compare_sample)  *)
(* ... for sample, paths in paths_iter).  Tasks are handed out in the      *)
(* iterator's order, to at most n_jobs workers at a time.  With one worker *)
(* the calls run in the caller, so nothing is handed out after a call has  *)
(* raised.                                                                 *)
(***************************************************************************)
Dispatch(s) ==
    /\ mainpc = "replicate"
    /\ wpc[s] = "pending"
    /\ \A t \in Samples : t < s => wpc[t] # "pending"
    /\ Cardinality({t \in Samples : wpc[t] \in Running}) < n_jobs
    /\ n_jobs = 1 => \A t \in Samples : wpc[t] # "failed"
    /\ wpc' = [wpc EXCEPT ![s] = "running"]
    /\ UNCHANGED <<task, n_jobs, failAt, mainpc, rtree, files, bpc, brtree, repdf, avars, cvars, kvars>>

(***************************************************************************)
(* replicate_compare_sample, one disjunct per step: loading the replicate  *)
(* files and building the index; the connected components; the collapse;   *)
(* writing the table, then gc.collect().  A step that raises ends the call *)
(* there: the lines after it, gc.collect() among them, do not run.         *)
(***************************************************************************)
Raise(s) ==
    /\ wpc' = [wpc EXCEPT ![s] = "failed"]
    /\ UNCHANGED <<rtree, files>>

replicate_compare_sample(s) ==
    /\ UNCHANGED <<task, n_jobs, failAt, mainpc, bpc, brtree, repdf, avars, cvars, kvars>>
    /\ \/ /\ wpc[s] = "running"                     \* lines 83-87
          /\ IF failAt[s] = "load"
             THEN Raise(s)
             ELSE /\ wpc' = [wpc EXCEPT ![s] = "indexed"]
                  /\ rtree' = [rtree EXCEPT ![s] = "live"]
                  /\ UNCHANGED files
       \/ /\ wpc[s] = "indexed"                     \* lines 88-90
          /\ IF failAt[s] = "concomp"
             THEN Raise(s)
             ELSE /\ wpc' = [wpc EXCEPT ![s] = "components"]
                  /\ UNCHANGED <<rtree, files>>
       \/ /\ wpc[s] = "components"                  \* lines 91-93
          /\ IF failAt[s] = "collapse"
             THEN Raise(s)
             ELSE /\ wpc' = [wpc EXCEPT ![s] = "collapsed"]
                  /\ UNCHANGED <<rtree, files>>
       \/ /\ wpc[s] = "collapsed"                   \* lines 94-96
          /\ IF failAt[s] = "write"
             THEN Raise(s)
             ELSE /\ wpc' = [wpc EXCEPT ![s] = "done"]
                  /\ files' = [files EXCEPT ![FileName(s)] = s]
                  /\ rtree' = [rtree EXCEPT ![s] = "released"]

(***************************************************************************)
(* The Parallel call returns once every task has returned.                 *)
(***************************************************************************)
ReturnsAtOnce == TRUE

ParallelDone == \A s \in Samples : wpc[s] = "done"

ParallelReturn ==
    /\ mainpc = "replicate"
    /\ ParallelDone
    /\ mainpc' = AfterReplicate
    /\ UNCHANGED <<task, n_jobs, failAt, wpc, rtree, files, bpc, brtree, repdf, avars, cvars, kvars>>

(***************************************************************************)
(* A task that raised makes the Parallel call raise: the pool is torn      *)
(* down, its running workers are killed (their memory goes with the        *)
(* process), tasks not yet handed out never run, and the exception leaves  *)
(* process_replicates and main, which catch nothing.                       *)
(***************************************************************************)
ParallelRaise ==
    /\ mainpc = "replicate"
    /\ \E s \in Samples : wpc[s] = "failed"
    /\ mainpc' = "crashed"
    /\ wpc' = [s \in Samples |-> IF wpc[s] \in Running THEN "killed" ELSE wpc[s]]
    /\ rtree' = [s \in Samples |->
                    IF wpc[s] \in Running /\ rtree[s] = "live" THEN "released" ELSE rtree[s]]
    /\ UNCHANGED <<task, n_jobs, failAt, files, bpc, brtree, repdf, avars, cvars, kvars>>

(***************************************************************************)
(* basket_replicated, one disjunct per step.  Any step after the index is  *)
(* built may raise; the call has no gc.collect() on any path.              *)
(***************************************************************************)
BasketRaise ==
    /\ bpc' = "failed"
    /\ mainpc' = "crashed"
    /\ UNCHANGED <<brtree, repdf>>

basket_replicated ==
    /\ mainpc = "basket"
    /\ UNCHANGED <<task, n_jobs, failAt, wpc, rtree, files, avars, cvars, kvars>>
    /\ \/ /\ bpc = "idle"                           \* lines 138-144
          /\ bpc' = "loaded"
          /\ repdf' = files
          /\ UNCHANGED <<mainpc, brtree>>
       \/ /\ bpc = "loaded"                         \* lines 145-147
          /\ bpc' = "indexed"
          /\ brtree' = "live"
          /\ UNCHANGED <<mainpc, repdf>>
       \/ /\ bpc = "indexed"                        \* lines 149-151
          /\ \/ /\ bpc' = "components"
                /\ UNCHANGED <<mainpc, brtree, repdf>>
             \/ BasketRaise
       \/ /\ bpc = "components"                     \* lines 152-153
          /\ \/ /\ bpc' = "collapsed"
                /\ UNCHANGED <<mainpc, brtree, repdf>>
             \/ BasketRaise
       \/ /\ bpc = "collapsed"                      \* line 155 and the return
          /\ \/ /\ bpc' = "done"
                /\ mainpc' = "done"
                /\ brtree' \in ScopeExit(brtree)
                /\ UNCHANGED repdf
             \/ BasketRaise

PNext ==
    \/ MainStart
    \/ \E s \in Samples : Dispatch(s)
    \/ \E s \in Samples : replicate_compare_sample(s)
    \/ ParallelReturn
    \/ ParallelRaise
    \/ basket_replicated


(***************************************************************************)
(* Fixed point and rounding.  A score s is held as the integer s * Scale.  *)
(* RoundHalfEven(n, d) is Python's round(n / d) for d > 0; Round2 is       *)
(* round(x, 2) on a score.                                                 *)
(***************************************************************************)
Scale == 1000

Cent == 10

RoundHalfEven(n, d) ==
    LET q == n \div d
        r == n % d
    IN  IF 2 * r < d THEN q
        ELSE IF 2 * r > d THEN q + 1
        ELSE IF q % 2 = 0 THEN q ELSE q + 1

Round2(x) == Cent * RoundHalfEven(x, Cent)

\* a quotient in fixed point, cut toward zero
FixDiv(n, d) == IF n < 0 THEN 0 - ((0 - n) \div d) ELSE n \div d

RECURSIVE ISqrtIn(_, _, _)
ISqrtIn(q, lo, hi) ==
    IF lo >= hi THEN lo
    ELSE LET mid == (lo + hi + 1) \div 2
         IN  IF mid * mid <= q THEN ISqrtIn(q, mid, hi) ELSE ISqrtIn(q, lo, mid - 1)

\* the root is searched below 46340, whose square is the largest TLC's integers hold
ISqrt(q) == ISqrtIn(q, 0, IF q <= Scale * Scale THEN Scale ELSE 46340)

RECURSIVE SumUpTo(_, _)
SumUpTo(xs, n) == IF n = 0 THEN 0 ELSE xs[n] + SumUpTo(xs, n - 1)

SumSeq(xs) == SumUpTo(xs, Len(xs))

RECURSIVE SetToSeq(_)
SetToSeq(S) ==
    IF S = {} THEN <<>>
    ELSE LET m == CHOOSE x \in S : \A y \in S : x <= y
         IN  <<m>> \o SetToSeq(S \ {m})

SetMin(S) == CHOOSE x \in S : \A y \in S : x <= y

SetMax(S) == CHOOSE x \in S : \A y \in S : x >= y

(***************************************************************************)
(* The activity table maps the samples it has a row for to their          *)
(* fingerprint, a row of AssayLen readings, each inactive (0) or active    *)
(* (1).                                                                    *)
(***************************************************************************)
AssayLen == 3

Readings == {0, 1}

Rows == [1..AssayLen -> Readings]

ActivityTables == UNION {[P -> Rows] : P \in SUBSET Samples}

\* the tables the activity phase is run on: rows with at most one active assay
SparseTables == {fpd \in ActivityTables : \A s \in DOMAIN fpd : SumSeq(fpd[s]) <= 1}

NaN == [nan |-> TRUE, val |-> 0]

Num(v) == [nan |-> FALSE, val |-> v]

(***************************************************************************)
(* get_samples_fps: the rows of the samples the table holds, the others    *)
(* skipped with a warning; KeyError when none is found.                    *)
(***************************************************************************)
RECURSIVE FoundRows(_, _)
FoundRows(fpd, samps) ==
    IF samps = <<>> THEN <<>>
    ELSE IF Head(samps) \notin DOMAIN fpd
         THEN FoundRows(fpd, Tail(samps))
         ELSE <<fpd[Head(samps)]>> \o FoundRows(fpd, Tail(samps))

get_samples_fps(fpd, samples) ==
    LET to_cat == FoundRows(fpd, SetToSeq(samples))
    IN  [raised |-> to_cat = <<>>, fps |-> to_cat]

(***************************************************************************)
(* Pearson's r of two rows, in fixed point: cov / sqrt(var_x * var_y),     *)
(* NaN when a row has no variance.                                         *)
(***************************************************************************)
RECURSIVE DotUpTo(_, _, _)
DotUpTo(x, y, n) == IF n = 0 THEN 0 ELSE x[n] * y[n] + DotUpTo(x, y, n - 1)

Dot(x, y) == DotUpTo(x, y, Len(x))

Covariance(x, y) == Len(x) * Dot(x, y) - SumSeq(x) * SumSeq(y)

Pearson(x, y) ==
    LET cov == Covariance(x, y)
        vx == Covariance(x, x)
        vy == Covariance(y, y)
    IN  IF vx = 0 \/ vy = 0 THEN NaN
        ELSE LET mag == ISqrt((cov * cov * Scale * Scale) \div (vx * vy))
             IN  Num(IF cov < 0 THEN 0 - mag ELSE mag)

(***************************************************************************)
(* cluster_score: 0.0 for a single fingerprint; otherwise the nansum of    *)
(* the correlations above the diagonal over the number of pairs.           *)
(***************************************************************************)
\* the correlation of every two rows, tabulated once
corr == [p \in Rows \X Rows |-> Pearson(p[1], p[2])] @@ <<>>

PairsWithDiagonal(j) == {p \in (1..j) \X (1..j) : p[1] <= p[2]}

PairsOf(j) == {p \in (1..j) \X (1..j) : p[1] < p[2]}

RECURSIVE NanSum(_, _)
NanSum(fps, pairs) ==
    IF pairs = {} THEN 0
    ELSE LET p == CHOOSE q \in pairs : TRUE
             c == corr[<<fps[p[1]], fps[p[2]]>>]
         IN  (IF c.nan THEN 0 ELSE c.val) + NanSum(fps, pairs \ {p})

cluster_score(fpd, samples) ==
    LET got == get_samples_fps(fpd, samples)
        fps == got.fps
        j == Len(fps)
    IN  IF got.raised THEN [raised |-> TRUE, score |-> 0]
        ELSE IF j = 1 THEN [raised |-> FALSE, score |-> 0]
        ELSE [raised |-> FALSE,
              score |-> FixDiv(NanSum(fps, PairsOf(j)), (j * j - j) \div 2)]

(***************************************************************************)
(* feature_synthetic_fp and score_basket: the activity score is the sum of *)
(* squares of the column means of the found rows.                          *)
(***************************************************************************)
ColumnSum(fps, k) == SumSeq([i \in 1..Len(fps) |-> fps[i][k]])

score_basket(samples, fpd) ==
    LET got == get_samples_fps(fpd, samples)
        fps == got.fps
        j == Len(fps)
        sq == SumSeq([k \in 1..AssayLen |-> ColumnSum(fps, k) * ColumnSum(fps, k)])
    IN  IF got.raised THEN [raised |-> TRUE, activity |-> 0, cluster |-> 0]
        ELSE [raised |-> FALSE,
              activity |-> FixDiv(Scale * sq, j * j),
              cluster |-> cluster_score(fpd, samples).score]

(***************************************************************************)
(* The activity phase, load_and_generate_act_outputs: score_baskets, then  *)
(* create_output_table, then create_association_network.                   *)
(***************************************************************************)
MaxBaskets == 2

BasketLists == UNION {[1..n -> (SUBSET Samples) \ {{}}] : n \in 0..MaxBaskets}

None == "None"

NoTable == <<>>

AIdle ==
    /\ baskets = <<>>
    /\ actTable = NoTable
    /\ score_jobs = 1
    /\ spc = <<>>
    /\ results = <<>>
    /\ apc = "idle"
    /\ scores = None
    /\ table = None
    /\ G = None

AInit ==
    /\ baskets \in BasketLists
    /\ actTable \in SparseTables
    /\ score_jobs \in 1..MaxWorkers
    /\ spc = [i \in 1..Len(baskets) |-> "pending"]
    /\ results = [i \in 1..Len(baskets) |-> None]
    /\ apc = "scoring"
    /\ scores = None
    /\ table = None
    /\ G = None

(***************************************************************************)
(* score_baskets: Parallel(n_jobs)(delayed(score_basket)(bask, ...) for    *)
(* bask in baskets).  A call that raises makes the Parallel call raise;    *)
(* otherwise the results come back as a list in the order of the baskets.  *)
(***************************************************************************)
ScoreDispatch(i) ==
    /\ apc = "scoring"
    /\ spc[i] = "pending"
    /\ \A k \in 1..Len(baskets) : k < i => spc[k] # "pending"
    /\ Cardinality({k \in 1..Len(baskets) : spc[k] = "running"}) < score_jobs
    /\ score_jobs = 1 => \A k \in 1..Len(baskets) : spc[k] # "failed"
    /\ spc' = [spc EXCEPT ![i] = "running"]
    /\ UNCHANGED <<baskets, actTable, score_jobs, results, apc, scores, table, G, pvars, cvars, kvars>>

ScoreRun(i) ==
    /\ spc[i] = "running"
    /\ LET r == score_basket(baskets[i], actTable)
       IN  IF r.raised
           THEN /\ spc' = [spc EXCEPT ![i] = "failed"]
                /\ UNCHANGED results
           ELSE /\ spc' = [spc EXCEPT ![i] = "done"]
                /\ results' = [results EXCEPT ![i] =
                                  [activity |-> r.activity, cluster |-> r.cluster]]
    /\ UNCHANGED <<baskets, actTable, score_jobs, apc, scores, table, G, pvars, cvars, kvars>>

ScoreReturn ==
    /\ apc = "scoring"
    /\ \A i \in 1..Len(baskets) : spc[i] = "done"
    /\ scores' = results
    /\ apc' = "scored"
    /\ UNCHANGED <<baskets, actTable, score_jobs, spc, results, table, G, pvars, cvars, kvars>>

ScoreRaise ==
    /\ apc = "scoring"
    /\ \E i \in 1..Len(baskets) : spc[i] = "failed"
    /\ apc' = "crashed"
    /\ spc' = [i \in 1..Len(baskets) |-> IF spc[i] = "running" THEN "killed" ELSE spc[i]]
    /\ UNCHANGED <<baskets, actTable, score_jobs, results, scores, table, G, pvars, cvars, kvars>>

(***************************************************************************)
(* create_output_table: one row per basket i, BasketID the index i.        *)
(***************************************************************************)
BasketID(i) == i - 1

create_output_table ==
    /\ apc = "scored"
    /\ table' = [i \in 1..Len(baskets) |->
                    [BasketID |-> BasketID(i),
                     Frequency |-> Cardinality(baskets[i]),
                     SampleList |-> SetToSeq(baskets[i]),
                     ACTIVITY_SCORE |-> scores[i].activity,
                     CLUSTER_SCORE |-> scores[i].cluster]]
    /\ apc' = "tabled"
    /\ UNCHANGED <<baskets, actTable, score_jobs, spc, results, scores, G, pvars, cvars, kvars>>

(***************************************************************************)
(* create_association_network.  The basket node stores round(act, 2) and   *)
(* round(clust, 2); the radius rescales the stored activity score against  *)
(* the minimum and maximum of the unrounded scores; the color tests the    *)
(* stored cluster score against the band edges, highest first.             *)
(***************************************************************************)
RadiusLow == 3

RadiusHigh == 10

NonFinite == "NonFinite"

nodeSize(activity_score, lo, hi) ==
    RoundHalfEven(RadiusLow * (hi - lo) + (RadiusHigh - RadiusLow) * (activity_score - lo),
                  hi - lo)

Color(cluster_score_) ==
    IF cluster_score_ > 750 THEN "rgb(165,0,38)"
    ELSE IF cluster_score_ > 500 THEN "rgb(215,48,39)"
    ELSE IF cluster_score_ > 250 THEN "rgb(244,109,67)"
    ELSE IF cluster_score_ > 0 THEN "rgb(253,174,97)"
    ELSE IF cluster_score_ > -250 THEN "rgb(171,217,233)"
    ELSE IF cluster_score_ > -500 THEN "rbg(116,173,209)"
    ELSE IF cluster_score_ > -750 THEN "rgb(69,117,180)"
    ELSE "rgb(49,54,149)"

ActivityScores == {scores[i].activity : i \in 1..Len(baskets)}

BasketNode(i, radius) ==
    [id |-> BasketID(i),
     freq |-> Cardinality(baskets[i]),
     activity_score |-> Round2(scores[i].activity),
     cluster_score |-> Round2(scores[i].cluster),
     radius |-> radius,
     color |-> Color(Round2(scores[i].cluster))]

Graph(radii, finite) ==
    [finite |-> finite,
     samples |-> UNION {baskets[i] : i \in 1..Len(baskets)},
     nodes |-> [i \in 1..Len(baskets) |-> BasketNode(i, radii[i])],
     edges |-> UNION {{BasketID(i)} \X baskets[i] : i \in 1..Len(baskets)}]

create_association_network ==
    /\ apc = "tabled"
    /\ UNCHANGED <<baskets, actTable, score_jobs, spc, results, scores, table, pvars, cvars, kvars>>
    /\ IF baskets # <<>> /\ SetMax(ActivityScores) = SetMin(ActivityScores)
       THEN \* max - min = 0: the division raises, or yields a non-finite value
            \/ /\ G' = None
               /\ apc' = "crashed"
            \/ /\ G' = Graph([i \in 1..Len(baskets) |-> NonFinite], FALSE)
               /\ apc' = "done"
       ELSE /\ LET lo == SetMin(ActivityScores)
                   hi == SetMax(ActivityScores)
                   size == [i \in 1..Len(baskets) |->
                                nodeSize(Round2(scores[i].activity), lo, hi)]
               IN  G' = Graph(size, TRUE)
            /\ apc' = "done"

ANext ==
    \/ \E i \in 1..Len(baskets) : ScoreDispatch(i)
    \/ \E i \in 1..Len(baskets) : ScoreRun(i)
    \/ ScoreReturn
    \/ ScoreRaise
    \/ create_output_table
    \/ create_association_network

(***************************************************************************)
(* create_association_network on score lists of its own: the activity and  *)
(* cluster scores range over values chosen around the rounding step and    *)
(* the band edges.                                                         *)
(***************************************************************************)
ActivityValues == {1, 2, 126, 500, 1000}

ClusterValues == {800, 753, 600, 300, 100, -100, -300, -600, -900}

NInit ==
    /\ baskets \in BasketLists
    /\ scores \in [1..Len(baskets) -> [activity : ActivityValues, cluster : ClusterValues]]
    /\ results = scores
    /\ spc = [i \in 1..Len(baskets) |-> "done"]
    /\ actTable = NoTable
    /\ score_jobs = 1
    /\ apc = "scored"
    /\ table = None
    /\ G = None

NNext ==
    \/ create_output_table
    \/ create_association_network

(***************************************************************************)
(* cluster_score on tables and sample lists of its own.                    *)
(***************************************************************************)
CIdle ==
    /\ cs_fpd = NoTable
    /\ cs_samples = {}
    /\ cs_result = [pc |-> "idle"]

CInit ==
    /\ cs_fpd \in ActivityTables
    /\ cs_samples \in {1..k : k \in 1..NumSamples}
    /\ cs_result = [pc |-> "called"]

CallClusterScore ==
    /\ cs_result.pc = "called"
    /\ LET r == cluster_score(cs_fpd, cs_samples)
       IN  cs_result' = IF r.raised THEN [pc |-> "raised"]
                        ELSE [pc |-> "returned", score |-> r.score]
    /\ UNCHANGED <<cs_fpd, cs_samples, pvars, avars, kvars>>

CNext == CallClusterScore

(***************************************************************************)
(* A consolidation pass, core.py lines 86-93 (replicate_compare_sample)    *)
(* and 145-152 (basket_replicated): add_error_cols, build_rtree,           *)
(* generate_connected_components over get_hyperrectangles, then            *)
(* collapse_connected_components with min_reps.  The four callees are in   *)
(* npanalyst.utils; they follow the specification's sections 3 and 4.1 to  *)
(* 4.3.  Values are whole numbers; tolerances and box edges are in         *)
(* hundredths.                                                             *)
(***************************************************************************)
MaxFeatures == 3

TolScale == 100

MS1COLSTOMATCH == {"mz", "rt"}

MzValues == {100, 102, 104}

RtValues == {5, 6}

RepFiles == {1, 2}

Features == [mz : MzValues, rt : RtValues, file : RepFiles]

FeatureTables == UNION {[1..n -> Features] : n \in 0..MaxFeatures}

\* ErrorSpec: (kind, magnitude); an absolute magnitude in hundredths, a
\* relative one as a fraction in hundredths
ErrorInfos ==
    {[mz |-> <<"relative", 1>>, rt |-> <<"absolute", 40>>],
     [mz |-> <<"relative", 1>>, rt |-> <<"none", 0>>]}

MinRepsChoices == {1, 2}

Sites == {"replicate", "basket"}

\* core.py line 92 hands configd["MINREPS"], line 152 hands min_reps=1
MinRepsAt(s) == IF s = "basket" THEN {1} ELSE MinRepsChoices

tolerance(value, spec) ==
    IF spec[1] = "none" THEN 0
    ELSE IF spec[1] = "absolute" THEN spec[2]
    ELSE value * spec[2]

ToleranceBox(f) ==
    [d \in MS1COLSTOMATCH |->
        [lo |-> f[d] * TolScale - tolerance(f[d], ERRORINFO[d]),
         hi |-> f[d] * TolScale + tolerance(f[d], ERRORINFO[d])]]

\* two boxes intersect on every matched dimension; a dimension of kind
\* none always matches
Intersect(a, b) ==
    \A d \in MS1COLSTOMATCH :
        \/ ERRORINFO[d][1] = "none"
        \/ a[d].lo <= b[d].hi /\ b[d].lo <= a[d].hi

query_overlaps(box) == {e[1] : e \in {x \in index : Intersect(x[2], box)}}

\* the traversal from a feature: the feature itself and everything a chain
\* of overlaps reaches
RECURSIVE Grow(_)
Grow(S) ==
    LET N == S \cup UNION {query_overlaps(boxes[j]) : j \in S}
    IN  IF N = S THEN S ELSE Grow(N)

con_comp(i) == Grow({i})

MarkStartOnly(old, i, cc) == old \cup {i}

MarkSeen(old, i, cc) == old \cup cc

distinct_samples(cc) == {df[f].file : f \in cc}

IsRetained(cc) == Cardinality(distinct_samples(cc)) >= min_reps

ColumnMean(cc, d) ==
    LET members == SetToSeq(cc)
    IN  FixDiv(TolScale * SumSeq([k \in 1..Len(members) |-> df[members[k]][d]]),
               Len(members))

ConsolidatedRecord(cc) ==
    [members |-> cc,
     mz |-> ColumnMean(cc, "mz"),
     rt |-> ColumnMean(cc, "rt"),
     samples |-> distinct_samples(cc),
     freq |-> Cardinality(distinct_samples(cc))]

KIdle ==
    /\ site = "replicate"
    /\ ERRORINFO = [mz |-> <<"none", 0>>, rt |-> <<"none", 0>>]
    /\ min_reps = 1
    /\ df = <<>>
    /\ kpc = "idle"
    /\ boxes = <<>>
    /\ index = {}
    /\ seen = {}
    /\ next_i = 1
    /\ con_comps = <<>>
    /\ ndf = <<>>
    /\ dropped = <<>>

KInit ==
    /\ site \in Sites
    /\ ERRORINFO \in ErrorInfos
    /\ min_reps \in MinRepsAt(site)
    /\ df \in FeatureTables
    /\ kpc = "start"
    /\ boxes = <<>>
    /\ index = {}
    /\ seen = {}
    /\ next_i = 1
    /\ con_comps = <<>>
    /\ ndf = <<>>
    /\ dropped = <<>>

add_error_cols ==
    /\ kpc = "start"
    /\ boxes' = [i \in 1..Len(df) |-> ToleranceBox(df[i])]
    /\ kpc' = "boxed"
    /\ UNCHANGED <<site, ERRORINFO, min_reps, df, index, seen, next_i, con_comps,
                   ndf, dropped, pvars, avars, cvars>>

build_rtree ==
    /\ kpc = "boxed"
    /\ index' = {<<i, boxes[i]>> : i \in 1..Len(df)}
    /\ kpc' = "indexed"
    /\ UNCHANGED <<site, ERRORINFO, min_reps, df, boxes, seen, next_i, con_comps,
                   ndf, dropped, pvars, avars, cvars>>

\* one turn of the loop over the features: a feature not yet seen starts a
\* component, which is everything the traversal reaches from it
generate_connected_components ==
    /\ kpc = "indexed"
    /\ next_i <= Len(df)
    /\ IF next_i \in seen
       THEN UNCHANGED <<seen, con_comps>>
       ELSE LET cc == con_comp(next_i)
            IN  /\ con_comps' = Append(con_comps, cc)
                /\ seen' = MarkSeen(seen, next_i, cc)
    /\ next_i' = next_i + 1
    /\ UNCHANGED <<site, ERRORINFO, min_reps, df, kpc, boxes, index, ndf, dropped,
                   pvars, avars, cvars>>

collapse_connected_components ==
    /\ kpc = "indexed"
    /\ next_i > Len(df)
    /\ LET kept(cc) == IsRetained(cc)
           lost(cc) == ~IsRetained(cc)
           retained == SelectSeq(con_comps, kept)
       IN  /\ ndf' = [r \in 1..Len(retained) |-> ConsolidatedRecord(retained[r])]
           /\ dropped' = SelectSeq(con_comps, lost)
    /\ kpc' = "collapsed"
    /\ UNCHANGED <<site, ERRORINFO, min_reps, df, boxes, index, seen, next_i,
                   con_comps, pvars, avars, cvars>>

KNext ==
    \/ add_error_cols
    \/ build_rtree
    \/ generate_connected_components
    \/ collapse_connected_components

(***************************************************************************)
(* The specifications: the command line's two phases (Spec), the activity  *)
(* phase (SpecScore), the network builder (SpecNet), cluster_score         *)
(* (SpecCluster), a consolidation pass (SpecConsolidate).                  *)
(***************************************************************************)
PIdle ==
    /\ task = "activity"
    /\ n_jobs = 1
    /\ failAt = [s \in Samples |-> "none"]
    /\ mainpc = "activity"
    /\ wpc = [s \in Samples |-> "pending"]
    /\ rtree = [s \in Samples |-> "none"]
    /\ files = [f \in AllFiles |-> Absent]
    /\ bpc = "idle"
    /\ brtree = "none"
    /\ repdf = [f \in AllFiles |-> Absent]

Init == PInit /\ AIdle /\ CIdle /\ KIdle

Next == PNext

Spec == Init /\ [][Next]_vars

InitScore == PIdle /\ AInit /\ CIdle /\ KIdle

SpecScore == InitScore /\ [][ANext]_vars

InitNet == PIdle /\ NInit /\ CIdle /\ KIdle

SpecNet == InitNet /\ [][NNext]_vars

InitCluster == PIdle /\ AIdle /\ CInit /\ KIdle

SpecCluster == InitCluster /\ [][CNext]_vars

InitConsolidate == PIdle /\ AIdle /\ CIdle /\ KInit

SpecConsolidate == InitConsolidate /\ [][KNext]_vars

(***************************************************************************)
(*                              Properties                                 *)
(***************************************************************************)
ReplicatePhaseEnded == task \in ReplicateTasks /\ mainpc \notin {"start", "replicate"}

(***************************************************************************)
(* C1: whichever samples' replicate_compare_sample calls raise, every      *)
(* other sample is processed to completion and its output table is         *)
(* written by the time process_replicates has ended.                       *)
(***************************************************************************)
C1_SiblingsProcessed ==
    ReplicatePhaseEnded =>
        \A s \in Samples :
            failAt[s] = "none" => wpc[s] = "done" /\ files[FileName(s)] = s

(***************************************************************************)
(* C2: a basket none of whose samples is in the activity table never       *)
(* aborts the run: the run completes, and the output table and the network *)
(* hold exactly the baskets that have a fingerprint.                       *)
(***************************************************************************)
HasFingerprint(i) == baskets[i] \cap DOMAIN actTable # {}

Scored == {BasketID(i) : i \in {k \in 1..Len(baskets) : HasFingerprint(k)}}

C2_UnmatchedBasketExcluded ==
    /\ (\E i \in 1..Len(baskets) : spc[i] = "failed") => apc # "crashed"
    /\ apc = "done" =>
          /\ {G.nodes[i].id : i \in DOMAIN G.nodes} = Scored
          /\ {table[i].BasketID : i \in DOMAIN table} = Scored

(***************************************************************************)
(* C3: when all scored baskets share one activity score the network is     *)
(* built without a division by zero, and every basket node gets the radius *)
(* the rescale gives with a denominator of 1.                              *)
(***************************************************************************)
NetworkCallEnded == apc \in {"done", "crashed"} /\ baskets # <<>>

C3_EqualScoresConstantRadius ==
    (NetworkCallEnded /\ Cardinality(ActivityScores) = 1) =>
        /\ apc = "done"
        /\ G.finite
        /\ \A i \in 1..Len(baskets) :
              G.nodes[i].radius =
                  nodeSize(Round2(scores[i].activity),
                           SetMin(ActivityScores), SetMin(ActivityScores) + Scale)

(***************************************************************************)
(* C4: with at least two distinct activity scores every basket node's      *)
(* radius is an integer from 3 to 10.                                      *)
(***************************************************************************)
C4_RadiusInBand ==
    (NetworkCallEnded /\ Cardinality(ActivityScores) >= 2) =>
        /\ apc = "done"
        /\ G.finite
        /\ \A i \in 1..Len(baskets) : G.nodes[i].radius \in RadiusLow..RadiusHigh

(***************************************************************************)
(* C5: with pairwise distinct activity scores the basket of the minimum    *)
(* score gets radius 3 and the basket of the maximum score radius 10.      *)
(***************************************************************************)
PairwiseDistinct ==
    \A i, k \in 1..Len(baskets) : i # k => scores[i].activity # scores[k].activity

C5_MinGetsLowMaxGetsHigh ==
    (apc = "done" /\ Len(baskets) >= 2 /\ PairwiseDistinct) =>
        \A i \in 1..Len(baskets) :
            /\ scores[i].activity = SetMin(ActivityScores) =>
                  G.finite /\ G.nodes[i].radius = RadiusLow
            /\ scores[i].activity = SetMax(ActivityScores) =>
                  G.finite /\ G.nodes[i].radius = RadiusHigh

(***************************************************************************)
(* C6: a basket node's color is the color of the band that holds the       *)
(* basket's cluster score, the bands being (0.75,inf], (0.5,0.75],         *)
(* (0.25,0.5], (0,0.25], (-0.25,0], (-0.5,-0.25], (-0.75,-0.5] and         *)
(* (-inf,-0.75], with eight distinct colors.                               *)
(***************************************************************************)
Palette ==
    <<"rgb(165,0,38)", "rgb(215,48,39)", "rgb(244,109,67)", "rgb(253,174,97)",
      "rgb(171,217,233)", "rbg(116,173,209)", "rgb(69,117,180)", "rgb(49,54,149)">>

BandEdges == <<750, 500, 250, 0, -250, -500, -750>>

Band(c) ==
    IF \E k \in 1..Len(BandEdges) : c > BandEdges[k]
    THEN SetMin({k \in 1..Len(BandEdges) : c > BandEdges[k]})
    ELSE Len(BandEdges) + 1

C6_ColorByBand ==
    /\ Cardinality({Palette[k] : k \in 1..Len(Palette)}) = Len(BandEdges) + 1
    /\ apc = "done" =>
          \A i \in 1..Len(baskets) : G.nodes[i].color = Palette[Band(scores[i].cluster)]

(***************************************************************************)
(* C7: a cluster score that is returned lies in [-1, 1]; it is 0 when one  *)
(* sample contributes; a pair without a correlation (NaN) adds nothing     *)
(* while the divisor stays the number of all pairs, so the score is at     *)
(* most the share of the pairs that have a correlation.                    *)
(***************************************************************************)
Contributing == cs_samples \cap DOMAIN cs_fpd

Varies(row) == \E a, b \in 1..AssayLen : row[a] # row[b]

CorrelatedPairs ==
    {p \in Contributing \X Contributing :
        p[1] < p[2] /\ Varies(cs_fpd[p[1]]) /\ Varies(cs_fpd[p[2]])}

AllPairs == {p \in Contributing \X Contributing : p[1] < p[2]}

Abs(x) == IF x < 0 THEN 0 - x ELSE x

C7_ClusterScoreBounds ==
    cs_result.pc = "returned" =>
        /\ 0 - Scale <= cs_result.score /\ cs_result.score <= Scale
        /\ Cardinality(Contributing) = 1 => cs_result.score = 0
        /\ Cardinality(Contributing) >= 2 =>
              Abs(cs_result.score) * Cardinality(AllPairs)
                  <= Scale * Cardinality(CorrelatedPairs)

C7_Witness ==
    /\ cs_result.pc = "returned"
    /\ Cardinality(Contributing) = 3
    /\ Cardinality(CorrelatedPairs) = 1
    /\ cs_result.score < 0

(***************************************************************************)
(* C8: when the task has both phases, basket_replicated has begun only     *)
(* once every sample's replicate_compare_sample call has ended and its     *)
(* output table is written; what basketing read is the directory as the    *)
(* replicate phase left it.                                                *)
(***************************************************************************)
BothPhases == ReplicateTasks \cap BasketTasks

C8_BasketAfterReplicates ==
    (task \in BothPhases /\ bpc # "idle") =>
        /\ \A s \in Samples : wpc[s] \in Ended
        /\ \A s \in Samples : wpc[s] = "done" => files[FileName(s)] = s
        /\ repdf = files

C8_Witness ==
    /\ task = "both"
    /\ bpc = "done"
    /\ \A s \in Samples : wpc[s] = "done" /\ repdf[FileName(s)] = s

(***************************************************************************)
(* C9: once a consolidation pass has ended, by a return or by an error,    *)
(* the spatial index it built is released.                                 *)
(***************************************************************************)
C9_IndexReleased ==
    /\ \A s \in Samples : wpc[s] \in {"done", "failed"} => rtree[s] # "live"
    /\ bpc \in {"done", "failed"} => brtree # "live"

(***************************************************************************)
(* C10: the outcome of the replicate phase is the same for every schedule  *)
(* of its workers: when the phase has ended the directory holds, under     *)
(* each sample's own file name, the table of each sample whose pass does   *)
(* not raise, and nothing else.                                            *)
(***************************************************************************)
TablesOfInput ==
    [f \in AllFiles |->
        IF \E s \in Samples : FileName(s) = f /\ failAt[s] = "none"
        THEN CHOOSE s \in Samples : FileName(s) = f /\ failAt[s] = "none"
        ELSE Absent]

C10_ScheduleIndependent == ReplicatePhaseEnded => files = TablesOfInput

(***************************************************************************)
(* Two ends of the replicate phase on one input (two workers, the first    *)
(* sample unreadable, the others sound): with every other table written,   *)
(* and with none.                                                          *)
(***************************************************************************)
FirstUnreadable ==
    /\ ReplicatePhaseEnded
    /\ n_jobs = 2
    /\ failAt = [s \in Samples |-> IF s = 1 THEN "load" ELSE "none"]

EndsWithAllOthers == FirstUnreadable /\ files = TablesOfInput

EndsWithNone == FirstUnreadable /\ files = [f \in AllFiles |-> Absent]

(***************************************************************************)
(* The list score_baskets returns holds at position i the score of         *)
(* baskets[i], whatever the order in which the workers finish; the output  *)
(* table and the network key each basket by that index.                    *)
(***************************************************************************)
ScoresKeyedByBasket ==
    apc \in {"scored", "tabled", "done"} =>
        \A i \in 1..Len(baskets) :
            LET r == score_basket(baskets[i], actTable)
            IN  scores[i] = [activity |-> r.activity, cluster |-> r.cluster]


(***************************************************************************)
(* C11: when a consolidation pass has collapsed its components, every      *)
(* feature of the input table is in exactly one component the traversal    *)
(* found, features whose boxes overlap share their component, and the      *)
(* components kept as records together with the components the min_reps    *)
(* filter dropped hold every feature exactly once and nothing else.        *)
(***************************************************************************)
RetainedAndDropped ==
    [k \in 1..(Len(ndf) + Len(dropped)) |->
        IF k <= Len(ndf) THEN ndf[k].members ELSE dropped[k - Len(ndf)]]

TimesIn(comps, i) == Cardinality({k \in DOMAIN comps : i \in comps[k]})

C11_ComponentsPartitionInput ==
    kpc = "collapsed" =>
        /\ \A i \in DOMAIN df : TimesIn(con_comps, i) = 1
        /\ \A i, j \in DOMAIN df :
               Intersect(boxes[i], boxes[j]) =>
                   \E k \in DOMAIN con_comps : {i, j} \subseteq con_comps[k]
        /\ \A i \in DOMAIN df : TimesIn(RetainedAndDropped, i) = 1
        /\ \A k \in DOMAIN RetainedAndDropped :
               RetainedAndDropped[k] # {} /\ RetainedAndDropped[k] \subseteq DOMAIN df

\* a pass that kept a component of several features and dropped another
C11_Witness ==
    /\ kpc = "collapsed"
    /\ \E r \in DOMAIN ndf : Cardinality(ndf[r].members) >= 2
    /\ dropped # <<>>
=============================================================================
